---- MODULE Spec2Model ----
(***************************************************************************)
(* migo: a minimal apply-forward SQL migration runner (src/migo.py).       *)
(*                                                                         *)
(* The model holds the migrations directory (file names as sequences of    *)
(* characters, each with its content), the database (the __migrations      *)
(* ledger table and the data the scripts' statements write), and one       *)
(* Migrator per process with its connection and its position inside        *)
(* run_migrations.  Every await of _run_migration is one step.  A record   *)
(* of the call in progress and of the two most recently completed calls    *)
(* is kept as history, for the properties to speak about.                  *)
(***************************************************************************)
EXTENDS Integers, Sequences, FiniteSets, TLC

VARIABLES
    dirExists,    \* whether the migrations directory exists
    files,        \* the directory: file name -> content (a sequence of statements)
    tableExists,  \* whether the __migrations table exists
    ledger,       \* the rows of __migrations, in insertion order
    data,         \* committed effects of the scripts' statements, in order
    conn,         \* per process: self.conn ("none", "open", "closed")
    pc,           \* per process: position ("off", "idle", "head", "exec", "insert",
                  \*   "connect", "sleep")
    scripts,      \* per process: the list run_migrations iterates over
    pos,          \* per process: the position of the loop in scripts, or the
                  \*   loop variable i of wait_for_database
    revision,     \* per process: the local `revision` of _run_migration
    call,         \* per process: the record of the call in progress
    prev,         \* the completed call before `last`
    last,         \* the most recently completed call
    cli           \* per process: the command line handle() works on, its
                  \*   position in handle(), and the methods it has called

vars == <<dirExists, files, tableExists, ledger, data, conn, pc, scripts, pos,
          revision, call, prev, last, cli>>

Procs == {1, 2}

-----------------------------------------------------------------------------
(* Bounds of the model. *)

\* At most this many files are in the migrations directory initially.
MaxFiles == 3

-----------------------------------------------------------------------------
(* Characters and strings.  A string is a sequence of one-character strings. *)

\* The characters used, in ASCII order.
Alphabet == <<"+", "-", ".", "0", "1", "2", "3", "4", "5", "6", "7", "8", "9",
              "_", "a", "b", "c", "d", "e", "l", "p", "q", "s", "x", "y">>

Ord(c) == CHOOSE k \in 1..Len(Alphabet) : Alphabet[k] = c

Digits == <<"0", "1", "2", "3", "4", "5", "6", "7", "8", "9">>

IsDigit(c) == \E k \in 1..Len(Digits) : Digits[k] = c

DigitVal(c) == (CHOOSE k \in 1..Len(Digits) : Digits[k] = c) - 1

\* Python's str < str: lexicographic by code point.
RECURSIVE StrLess(_, _)
StrLess(a, b) ==
    IF b = <<>> THEN FALSE
    ELSE IF a = <<>> THEN TRUE
    ELSE IF Head(a) = Head(b) THEN StrLess(Tail(a), Tail(b))
    ELSE Ord(Head(a)) < Ord(Head(b))

\* name.endswith(suffix)
EndsWith(name, suffix) ==
    /\ Len(name) >= Len(suffix)
    /\ SubSeq(name, Len(name) - Len(suffix) + 1, Len(name)) = suffix

\* script_name.split('_')[0]: the characters before the first underscore.
RECURSIVE SplitFirst(_)
SplitFirst(s) ==
    IF s = <<>> \/ Head(s) = "_" THEN <<>>
    ELSE <<Head(s)>> \o SplitFirst(Tail(s))

\* Whether int(tok) succeeds: an optional sign, then one or more digits.
IsIntLiteral(tok) ==
    LET body == IF tok # <<>> /\ Head(tok) \in {"+", "-"} THEN Tail(tok) ELSE tok
    IN  /\ body # <<>>
        /\ \A k \in 1..Len(body) : IsDigit(body[k])

RECURSIVE DigitsValue(_)
DigitsValue(s) ==
    IF s = <<>> THEN 0
    ELSE 10 * DigitsValue(SubSeq(s, 1, Len(s) - 1)) + DigitVal(s[Len(s)])

\* int(tok), for a tok that IsIntLiteral.
ToInt(tok) ==
    IF Head(tok) = "-" THEN 0 - DigitsValue(Tail(tok))
    ELSE IF Head(tok) = "+" THEN DigitsValue(Tail(tok))
    ELSE DigitsValue(tok)

SqlExt == <<".", "s", "q", "l">>

PyExt == <<".", "p", "y">>

-----------------------------------------------------------------------------
(* The inputs: file names and file contents. *)

N1a == <<"1", "_", "a">> \o SqlExt

N2b == <<"2", "_", "b">> \o SqlExt

N3c == <<"3", "_", "c">> \o SqlExt

N02a == <<"0", "2", "_", "a">> \o SqlExt

\* 1_a.sql, 2_b.sql, 3_c.sql: the scenario of the documentation.
\* 02_a.sql: shares index 2 with 2_b.sql, and sorts before 1_a.sql as a
\* string but after it as a number.
GoodNames == {N1a, N2b, N3c, N02a}

\* x_a.sql and _y.sql do not start with a number; 4_e.py is no sql script.
OtherNames ==
    { <<"x", "_", "a">> \o SqlExt,
      <<"_", "y">> \o SqlExt,
      <<"4", "_", "e">> \o PyExt }

\* A script's content is its statements: each succeeds ("ok") or makes the
\* database raise ("fail").  The empty file has none.
GoodSql == <<"ok", "ok">>

FailingSql == <<"ok", "fail">>

EmptySql == <<>>

Contents == {GoodSql, FailingSql, EmptySql}

\* The directories the model starts from: at most MaxFiles files; the content
\* of a file the program never reads is fixed.
Directories ==
    { f \in UNION { [D -> Contents] :
                      D \in { D \in SUBSET (GoodNames \cup OtherNames) :
                                Cardinality(D) <= MaxFiles } } :
        \A n \in DOMAIN f : n \in OtherNames => f[n] = GoodSql }

-----------------------------------------------------------------------------
(* Errors and the history records. *)

Err(kind, file) == [kind |-> kind, file |-> file]

NoErr == Err("none", <<>>)

Event(ev, name, head) == [ev |-> ev, name |-> name, head |-> head]

NoCall ==
    [op |-> "none", proc |-> 0, err |-> NoErr, ret |-> <<>>, conn0 |-> "none",
     table0 |-> FALSE, table1 |-> FALSE, ledger0 |-> <<>>, ledger1 |-> <<>>,
     data0 |-> <<>>, data1 |-> <<>>, dir |-> {}, found |-> <<>>, log |-> <<>>]

\* The record of a call of `op` that starts in the current state.
NewCall(p, op) ==
    [NoCall EXCEPT !.op = op, !.proc = p, !.conn0 = conn[p],
                   !.table0 = tableExists, !.table1 = tableExists,
                   !.ledger0 = ledger, !.ledger1 = ledger,
                   !.data0 = data, !.data1 = data, !.dir = DOMAIN files]

\* handle() is not running: the Migrator is used as a library.
NoCli == [action |-> "none", name |-> <<>>, at |-> "off", trace |-> <<>>]

-----------------------------------------------------------------------------
(* ScriptStore: Migrator._get_migration_scripts. *)

IsSqlFile(name) == EndsWith(name, SqlExt)

\* A bug: a script that does not start with a number is left out, not refused.
RECURSIVE ParseScripts_skipping(_)
ParseScripts_skipping(names) ==
    IF names = <<>> THEN [err |-> NoErr, list |-> <<>>]
    ELSE LET tok == SplitFirst(Head(names))
             rest == ParseScripts_skipping(Tail(names))
         IN  IF ~IsIntLiteral(tok) THEN rest
             ELSE [err |-> NoErr,
                   list |-> <<[index |-> ToInt(tok), name |-> Head(names)]>>
                            \o rest.list]

\* The for loop: (int(index), script_name) for each script, or the exception
\* for the first script, in listing order, that does not start with a number.
RECURSIVE ParseScripts(_)
ParseScripts(names) ==
    IF names = <<>> THEN [err |-> NoErr, list |-> <<>>]
    ELSE LET tok == SplitFirst(Head(names))
         IN  IF ~IsIntLiteral(tok)
             THEN [err |-> Err("naming", Head(names)), list |-> <<>>]
             ELSE LET rest == ParseScripts(Tail(names))
                  IN  IF rest.err # NoErr THEN rest
                      ELSE [err |-> NoErr,
                            list |-> <<[index |-> ToInt(tok), name |-> Head(names)]>>
                                     \o rest.list]

\* Python's tuple order on (index, script_name).
TupleLess(a, b) ==
    \/ a.index < b.index
    \/ a.index = b.index /\ StrLess(a.name, b.name)

RECURSIVE InsertSorted(_, _)
InsertSorted(x, s) ==
    IF s = <<>> THEN <<x>>
    ELSE IF TupleLess(x, Head(s)) THEN <<x>> \o s
    ELSE <<Head(s)>> \o InsertSorted(x, Tail(s))

\* A bug: the list is returned in listing order.
sorted_listingOrder(s) == s

\* sorted(migration_scripts)
RECURSIVE sorted(_)
sorted(s) == IF s = <<>> THEN <<>> ELSE InsertSorted(Head(s), sorted(Tail(s)))

\* os.listdir: the names of the directory in an arbitrary order.
RECURSIVE Listings(_)
Listings(names) ==
    IF names = {} THEN {<<>>}
    ELSE UNION { { <<n>> \o l : l \in Listings(names \ {n}) } : n \in names }

GetMigrationScripts(listing) ==
    LET parsed == ParseScripts(SelectSeq(listing, IsSqlFile))
    IN  IF parsed.err # NoErr THEN parsed
        ELSE [err |-> NoErr, list |-> sorted(parsed.list)]

-----------------------------------------------------------------------------
(* Ledger: the queries on __migrations. *)

\* What a query on connection state c raises: "none" when it succeeds.
DbError(c, table) ==
    IF c = "none" THEN "attribute_error"
    ELSE IF c = "closed" THEN "interface_error"
    ELSE IF ~table THEN "undefined_table"
    ELSE "none"

RECURSIVE InsertAsc(_, _)
InsertAsc(x, s) ==
    IF s = <<>> THEN <<x>>
    ELSE IF x < Head(s) THEN <<x>> \o s
    ELSE <<Head(s)>> \o InsertAsc(x, Tail(s))

\* A bug: ORDER BY revision ASC.
RECURSIVE OrderByRevisionDesc_asc(_)
OrderByRevisionDesc_asc(rows) ==
    IF rows = <<>> THEN <<>>
    ELSE InsertAsc(Head(rows).revision, OrderByRevisionDesc_asc(Tail(rows)))

RECURSIVE InsertDesc(_, _)
InsertDesc(x, s) ==
    IF s = <<>> THEN <<x>>
    ELSE IF x > Head(s) THEN <<x>> \o s
    ELSE <<Head(s)>> \o InsertDesc(x, Tail(s))

\* SELECT revision FROM __migrations ORDER BY revision DESC
RECURSIVE OrderByRevisionDesc(_)
OrderByRevisionDesc(rows) ==
    IF rows = <<>> THEN <<>>
    ELSE InsertDesc(Head(rows).revision, OrderByRevisionDesc(Tail(rows)))

\* fetchval of _latest_migration_revision (LIMIT 1): <<>> stands for None.
FetchLatest(rows) ==
    LET ordered == OrderByRevisionDesc(rows)
    IN  IF ordered = <<>> THEN <<>> ELSE <<Head(ordered)>>

\* _get_latest_revision: `revision or 0`.
LatestRevision(rows) ==
    LET v == FetchLatest(rows)
    IN  IF v = <<>> \/ Head(v) = 0 THEN 0 ELSE Head(v)

\* The width of the name column: VARCHAR(50).
NameColumnLen == 50

\* The row _insert_migration writes.
LedgerRow(name, index) == [name |-> name, revision |-> index]

\* A bug: the ledger keeps one row, the newest, in place of the others.
InsertRow_replace(rows, row) == <<row>>

\* INSERT INTO __migrations: the row is added, the others stay.
InsertRow(rows, row) == Append(rows, row)

-----------------------------------------------------------------------------
(* Script execution: Migrator._execute_sql_script. *)

\* A bug: the empty script is not refused.
IsEmptySql_never(sql) == FALSE

\* `not sql`
IsEmptySql(sql) == sql = <<>>

\* conn.execute(sql): the statements from the k-th on, in order, until one
\* fails; `work` is the data as the open transaction sees it.
RECURSIVE RunStatements(_, _, _, _)
RunStatements(work, name, sql, k) ==
    IF k > Len(sql) THEN [failed |-> FALSE, work |-> work]
    ELSE IF sql[k] = "fail" THEN [failed |-> TRUE, work |-> work]
    ELSE RunStatements(Append(work, [script |-> name, stmt |-> k]), name, sql, k + 1)

\* A bug: the statements run outside a transaction.
TransactionResult_noRollback(before, run) == run.work

\* async with self.conn.transaction(): commit, or roll back on an exception.
TransactionResult(before, run) == IF run.failed THEN before ELSE run.work

\* A bug: `index < revision`.
AlreadyRun_lt(index, head) == index < head

\* A bug: `index >= revision`.
AlreadyRun_ge(index, head) == index >= head

\* if index <= revision: return
AlreadyRun(index, head) == index <= head

-----------------------------------------------------------------------------
(* The state after construction. *)

\* What was applied before the model starts: nothing, 1_a.sql, or 1_a.sql
\* and 2_b.sql, each recorded by an earlier run with its statements committed.
EarlierRuns == {<<>>, <<N1a>>, <<N1a, N2b>>}

LedgerOf(names) ==
    [k \in 1..Len(names) |-> LedgerRow(names[k], ToInt(SplitFirst(names[k])))]

RECURSIVE DataOf(_)
DataOf(names) ==
    IF names = <<>> THEN <<>>
    ELSE RunStatements(DataOf(SubSeq(names, 1, Len(names) - 1)),
                       names[Len(names)], GoodSql, 1).work

Init ==
    /\ files \in Directories
    /\ dirExists \in (IF DOMAIN files = {} THEN BOOLEAN ELSE {TRUE})
    /\ tableExists \in BOOLEAN
    /\ \E earlier \in (IF tableExists THEN EarlierRuns ELSE {<<>>}) :
          /\ ledger = LedgerOf(earlier)
          /\ data = DataOf(earlier)
    /\ \E c \in {"none", "open"} : conn = [p \in Procs |-> IF p = 1 THEN c ELSE "none"]
    /\ pc = [p \in Procs |-> IF p = 1 THEN "idle" ELSE "off"]
    /\ scripts = [p \in Procs |-> <<>>]
    /\ pos = [p \in Procs |-> 0]
    /\ revision = [p \in Procs |-> 0]
    /\ call = [p \in Procs |-> NoCall]
    /\ prev = NoCall
    /\ last = NoCall
    /\ cli = [p \in Procs |-> NoCli]

-----------------------------------------------------------------------------
(* The operations. *)

\* The call of process p returns or raises: `rec` is its record.
Complete(p, rec) ==
    /\ pc' = [pc EXCEPT ![p] = "idle"]
    /\ scripts' = [scripts EXCEPT ![p] = <<>>]
    /\ pos' = [pos EXCEPT ![p] = 0]
    /\ revision' = [revision EXCEPT ![p] = 0]
    /\ call' = [call EXCEPT ![p] = NoCall]
    /\ prev' = last
    /\ last' = rec

\* A bug: the undefined-table error is swallowed and no table is created.
TableAfterProbe_never(table, probe) == table

\* except UndefinedTableError: CREATE TABLE IF NOT EXISTS __migrations
TableAfterProbe(table, probe) == table \/ probe = "undefined_table"

\* Migrator.setup
Setup(p) ==
    /\ pc[p] = "idle"
    /\ LET c == IF conn[p] = "none" THEN "open" ELSE conn[p]
           probe == DbError(c, tableExists)
           table == TableAfterProbe(tableExists, probe)
           err == IF probe \in {"none", "undefined_table"} THEN NoErr
                  ELSE Err(probe, <<>>)
       IN  /\ conn' = [conn EXCEPT ![p] = c]
           /\ tableExists' = table
           /\ Complete(p, [NewCall(p, "setup") EXCEPT !.err = err, !.table1 = table])
    /\ UNCHANGED <<dirExists, files, ledger, data>>

\* Migrator.close
Close(p) ==
    /\ pc[p] = "idle"
    /\ conn' = [conn EXCEPT ![p] = IF conn[p] = "open" THEN "closed" ELSE conn[p]]
    /\ Complete(p, NewCall(p, "close"))
    /\ UNCHANGED <<dirExists, files, tableExists, ledger, data>>

\* Migrator._get_latest_revision, called on its own.
GetLatestRevision(p) ==
    /\ pc[p] = "idle"
    /\ LET e == DbError(conn[p], tableExists)
           rec == NewCall(p, "head")
       IN  Complete(p, IF e = "none"
                       THEN [rec EXCEPT !.ret = <<LatestRevision(ledger)>>]
                       ELSE [rec EXCEPT !.err = Err(e, <<>>)])
    /\ UNCHANGED <<dirExists, files, tableExists, ledger, data, conn>>

\* Migrator.run_migrations, up to the first await: the scripts are listed,
\* in any order the file system may give (listings with the same outcome
\* are one choice).
RunMigrations(p) ==
    /\ pc[p] = "idle"
    /\ \E got \in { GetMigrationScripts(l) : l \in Listings(DOMAIN files) } :
          LET rec == [NewCall(p, "run") EXCEPT !.found = got.list]
          IN  IF got.err # NoErr
              THEN Complete(p, [rec EXCEPT !.err = got.err])
              ELSE IF got.list = <<>>
              THEN Complete(p, rec)
              ELSE /\ pc' = [pc EXCEPT ![p] = "head"]
                   /\ scripts' = [scripts EXCEPT ![p] = got.list]
                   /\ pos' = [pos EXCEPT ![p] = 1]
                   /\ call' = [call EXCEPT ![p] = rec]
                   /\ UNCHANGED <<revision, prev, last>>
    /\ dirExists' = TRUE
    /\ UNCHANGED <<files, tableExists, ledger, data, conn>>

\* The for loop of run_migrations moves to the next script, or ends.
Advance(p, rec) ==
    IF pos[p] = Len(scripts[p])
    THEN Complete(p, rec)
    ELSE /\ pc' = [pc EXCEPT ![p] = "head"]
         /\ pos' = [pos EXCEPT ![p] = pos[p] + 1]
         /\ revision' = [revision EXCEPT ![p] = 0]
         /\ call' = [call EXCEPT ![p] = rec]
         /\ UNCHANGED <<scripts, prev, last>>

\* A bug: the head revision is read once, before the first script, and
\* kept for the whole run.
HeadForScript_cached(rows, atStart) == LatestRevision(atStart)

\* revision = await self._get_latest_revision(), in every _run_migration:
\* the head of the ledger as it is now, not as it was when the run started.
HeadForScript(rows, atStart) == LatestRevision(rows)

\* _run_migration: the head revision is read and compared with the index.
RunHead(p) ==
    /\ pc[p] = "head"
    /\ LET s == scripts[p][pos[p]]
           e == DbError(conn[p], tableExists)
           head == HeadForScript(ledger, call[p].ledger0)
           rec == [call[p] EXCEPT !.log = Append(@, Event("eval", s.name, head))]
       IN  IF e # "none"
           THEN Complete(p, [call[p] EXCEPT !.err = Err(e, <<>>)])
           ELSE IF AlreadyRun(s.index, head)
           THEN Advance(p, rec)
           ELSE /\ pc' = [pc EXCEPT ![p] = "exec"]
                /\ revision' = [revision EXCEPT ![p] = head]
                /\ call' = [call EXCEPT ![p] = rec]
                /\ UNCHANGED <<scripts, pos, prev, last>>
    /\ UNCHANGED <<dirExists, files, tableExists, ledger, data, conn>>

\* _execute_sql_script: the file is read and executed in a transaction.
RunExec(p) ==
    /\ pc[p] = "exec"
    /\ LET s == scripts[p][pos[p]]
           sql == files[s.name]
           read == Append(call[p].log, Event("read", s.name, revision[p]))
           run == RunStatements(data, s.name, sql, 1)
           after == TransactionResult(data, run)
           done == read \o <<Event("begin", s.name, revision[p]),
                             Event(IF run.failed THEN "rollback" ELSE "commit",
                                   s.name, revision[p])>>
       IN  IF IsEmptySql(sql)
           THEN /\ Complete(p, [call[p] EXCEPT !.log = read,
                                               !.err = Err("empty", s.name)])
                /\ UNCHANGED data
           ELSE /\ data' = after
                /\ IF run.failed
                   THEN Complete(p, [call[p] EXCEPT !.log = done, !.data1 = after,
                                                   !.err = Err("sql", s.name)])
                   ELSE /\ pc' = [pc EXCEPT ![p] = "insert"]
                        /\ call' = [call EXCEPT ![p] = [@ EXCEPT !.log = done,
                                                                 !.data1 = after]]
                        /\ UNCHANGED <<scripts, pos, revision, prev, last>>
    /\ UNCHANGED <<dirExists, files, tableExists, ledger, conn>>

\* _run_migration: the ledger row of the executed script is inserted.
RunInsert(p) ==
    /\ pc[p] = "insert"
    /\ LET s == scripts[p][pos[p]]
           e == IF DbError(conn[p], tableExists) # "none"
                THEN DbError(conn[p], tableExists)
                ELSE IF Len(s.name) > NameColumnLen THEN "string_too_long"
                ELSE "none"
           rows == InsertRow(ledger, LedgerRow(s.name, s.index))
       IN  IF e # "none"
           THEN /\ Complete(p, [call[p] EXCEPT !.err = Err(e, s.name)])
                /\ UNCHANGED ledger
           ELSE /\ ledger' = rows
                /\ Advance(p, [call[p] EXCEPT
                                 !.log = Append(@, Event("insert", s.name, revision[p])),
                                 !.ledger1 = rows])
    /\ UNCHANGED <<dirExists, files, tableExists, data, conn>>

\* The Migrator used as a library: handle() is not involved.
Next ==
    \E p \in Procs :
        \/ Setup(p) /\ UNCHANGED cli
        \/ Close(p) /\ UNCHANGED cli
        \/ GetLatestRevision(p) /\ UNCHANGED cli
        \/ RunMigrations(p) /\ UNCHANGED cli
        \/ RunHead(p) /\ UNCHANGED cli
        \/ RunExec(p) /\ UNCHANGED cli
        \/ RunInsert(p) /\ UNCHANGED cli

Spec == Init /\ [][Next]_vars

-----------------------------------------------------------------------------
(* What the properties speak about. *)

Revisions(rows) == { rows[k].revision : k \in 1..Len(rows) }

\* The head revision as the data model defines it: the maximum revision in
\* the ledger, or 0 for the empty ledger.
HeadRevision(rows) ==
    IF rows = <<>> THEN 0
    ELSE CHOOSE m \in Revisions(rows) : \A r \in Revisions(rows) : r <= m

Max(a, b) == IF a >= b THEN a ELSE b

\* The names of the events `ev` of a log, in order.
NamesIn(log, ev) ==
    LET hits == SelectSeq(log, LAMBDA e : e.ev = ev)
    IN  [k \in 1..Len(hits) |-> hits[k].name]

Range(seq) == { seq[k] : k \in 1..Len(seq) }

\* The rows a call added to the ledger.
RowsAdded(rec) == SubSeq(rec.ledger1, Len(rec.ledger0) + 1, Len(rec.ledger1))

\* The position in rec.found of the script an event is about.
FoundAt(rec, name) == CHOOSE k \in 1..Len(rec.found) : rec.found[k].name = name

\* A run that returned without raising.
RunOk(rec) == rec.op = "run" /\ rec.err = NoErr

\* The calls the history holds: completed, and in progress.
Completed == {prev, last}

InProgress == { call[p] : p \in Procs }

-----------------------------------------------------------------------------
(* The properties. *)

\* C1: run_migrations twice in succession on the same scripts, the first run
\* having completed without error: the second run executes no script (it
\* reads no file, opens no transaction, inserts no row) and completes, the
\* head revision after it equals the head after the first, and no two
\* ledger rows have the same revision.
C1_RunTwiceIdempotent ==
    (RunOk(prev) /\ last.op = "run" /\ last.dir = prev.dir)
    => /\ last.err = NoErr
       /\ \A k \in 1..Len(last.log) : last.log[k].ev = "eval"
       /\ last.data1 = prev.data1
       /\ HeadRevision(last.ledger1) = HeadRevision(prev.ledger1)
       /\ \A i, j \in 1..Len(last.ledger1) :
             last.ledger1[i].revision = last.ledger1[j].revision => i = j

\* C1 witness: a first run that applied two scripts, then a second run that
\* evaluated them again.
C1_Witness ==
    /\ RunOk(prev) /\ RunOk(last)
    /\ Len(NamesIn(prev.log, "insert")) >= 2
    /\ Len(last.log) >= 2

\* C2: after any sequence of runs of one process, whatever order the
\* directory was listed in, the revisions of the ledger rows in insertion
\* order are strictly increasing, each row carries the index of its script,
\* and every run goes through its scripts in ascending index order.
C2_LedgerAscending ==
    /\ \A i, j \in 1..Len(ledger) : i < j => ledger[i].revision < ledger[j].revision
    /\ \A i \in 1..Len(ledger) :
          ledger[i].revision = ToInt(SplitFirst(ledger[i].name))
    /\ \A rec \in Completed \cup InProgress :
          /\ \A i, j \in 1..Len(rec.found) :
                i < j => rec.found[i].index <= rec.found[j].index
          /\ \A i, j \in 1..Len(NamesIn(rec.log, "eval")) :
                i < j => FoundAt(rec, NamesIn(rec.log, "eval")[i])
                           < FoundAt(rec, NamesIn(rec.log, "eval")[j])

\* C2 witness: one run recorded 1_a.sql, 02_a.sql and 3_c.sql in that order,
\* which is neither the order of the names as strings nor a listing order
\* the file system must give.
C2_Witness ==
    /\ RunOk(last)
    /\ NamesIn(last.log, "insert") = <<N1a, N02a, N3c>>
    /\ RowsAdded(last) = ledger

\* The discovered scripts a run found pending when it started.
PendingAtStart(rec) ==
    { k \in 1..Len(rec.found) : rec.found[k].index > HeadRevision(rec.ledger0) }

\* A discovered script that follows another script with the same index.
SharesEarlierIndex(rec, k) ==
    \E j \in 1..(k - 1) : rec.found[j].index = rec.found[k].index

AppliedInOrder(rec, ks) ==
    /\ NamesIn(rec.log, "commit") = NamesIn(rec.log, "insert")
    /\ Range(NamesIn(rec.log, "insert")) = { rec.found[k].name : k \in ks }
    /\ \A i, j \in 1..Len(RowsAdded(rec)) :
          i < j => RowsAdded(rec)[i].revision < RowsAdded(rec)[j].revision
    /\ \A i \in 1..Len(RowsAdded(rec)) :
          RowsAdded(rec)[i].name = NamesIn(rec.log, "insert")[i]

\* C3 as stated: when run_migrations completes without error from head h,
\* every discovered script with index > h has been applied (executed and
\* recorded), in strictly ascending index order.
C3_AllPendingApplied ==
    RunOk(last) => AppliedInOrder(last, PendingAtStart(last))

\* C3 amended: when run_migrations completes without error from head h,
\* exactly the discovered scripts with index > h that follow no script of
\* the same index have been applied, in strictly ascending index order; a
\* script that follows one of the same index is not executed.
C3_FirstOfIndexApplied ==
    RunOk(last) =>
        AppliedInOrder(last, { k \in PendingAtStart(last) : ~SharesEarlierIndex(last, k) })

\* C3 witness: from head 1, a run applied 02_a.sql and 3_c.sql and passed
\* over 2_b.sql.
C3_Witness ==
    /\ RunOk(last)
    /\ HeadRevision(last.ledger0) = 1
    /\ NamesIn(last.log, "insert") = <<N02a, N3c>>
    /\ N2b \in last.dir

SkipRespected(rec, k) ==
    LET name == rec.log[k].name
        at == FoundAt(rec, name)
    IN  /\ \A j \in 1..Len(rec.log) : rec.log[j].name = name => j = k
        /\ \A i \in 1..Len(RowsAdded(rec)) : RowsAdded(rec)[i].name # name
        /\ rec.err.file # name
        /\ k < Len(rec.log) =>
              /\ rec.log[k + 1].ev = "eval"
              /\ at < Len(rec.found)
              /\ rec.log[k + 1].name = rec.found[at + 1].name
        /\ (k = Len(rec.log) /\ rec \in Completed) =>
              /\ rec.err = NoErr
              /\ at = Len(rec.found)

\* C4: a script whose index is at most the head revision read when it is
\* evaluated is not read, not executed and not recorded, and the run goes
\* on with the next script (or ends) without error.
C4_SkipInvariant ==
    \A rec \in Completed \cup InProgress :
        \A k \in 1..Len(rec.log) :
            (/\ rec.log[k].ev = "eval"
             /\ rec.found[FoundAt(rec, rec.log[k].name)].index <= rec.log[k].head)
            => SkipRespected(rec, k)

\* C4 witness: a run found 1_a.sql at head 1 (index = head), passed over
\* it, and went on to apply a later script.
C4_Witness ==
    /\ RunOk(last)
    /\ Len(last.log) >= 2
    /\ last.log[1] = Event("eval", N1a, 1)
    /\ Len(RowsAdded(last)) >= 1

MaxIndex(found) ==
    CHOOSE m \in { found[k].index : k \in 1..Len(found) } :
        \A k \in 1..Len(found) : found[k].index <= m

\* C5: after run_migrations completes without error, the head revision is
\* the maximum of the initial head and the largest discovered index; with
\* no script discovered it is the initial head.
C5_FinalHead ==
    RunOk(last) =>
        HeadRevision(last.ledger1) =
            IF last.found = <<>> THEN HeadRevision(last.ledger0)
            ELSE Max(HeadRevision(last.ledger0), MaxIndex(last.found))

\* C5 witness: a run took the head from 1 to 3.
C5_Witness ==
    /\ RunOk(last)
    /\ HeadRevision(last.ledger0) = 1
    /\ HeadRevision(last.ledger1) = 3
    /\ HeadRevision(ledger) = 3

\* The event before the k-th is the evaluation of the same script.
EvaluatedJustBefore(rec, k) ==
    /\ k > 1
    /\ rec.log[k - 1].ev = "eval"
    /\ rec.log[k - 1].name = rec.log[k].name

\* The rows a call added are those of the scripts it logged as inserted.
RowsAddedAreLogged(rec) ==
    /\ Len(RowsAdded(rec)) = Len(NamesIn(rec.log, "insert"))
    /\ \A i \in 1..Len(RowsAdded(rec)) :
          RowsAdded(rec)[i].name = NamesIn(rec.log, "insert")[i]

EmptyRejected(rec, k) ==
    LET name == rec.log[k].name
    IN  /\ rec.err = Err("empty", name)
        /\ k = Len(rec.log)
        /\ EvaluatedJustBefore(rec, k)
        /\ \A j \in 1..Len(rec.log) :
              rec.log[j].name = name => rec.log[j].ev \in {"eval", "read"}
        /\ RowsAddedAreLogged(rec)
        /\ HeadRevision(rec.ledger1) = rec.log[k - 1].head
        /\ \A i \in 1..Len(rec.data1) : rec.data1[i].script # name

\* C6: when a run reads a pending script whose file is empty, the run fails
\* with the error naming that file; no transaction was opened for it, no
\* ledger row was written for it or for a later script, no later script
\* was evaluated, and the head revision is the one read just before the
\* script was evaluated.
C6_EmptyScriptRejected ==
    /\ \A rec \in Completed :
          \A k \in 1..Len(rec.log) :
              (rec.log[k].ev = "read" /\ files[rec.log[k].name] = EmptySql)
              => EmptyRejected(rec, k)
    /\ \A rec \in InProgress :
          \A k \in 1..Len(rec.log) :
              rec.log[k].ev = "read" => files[rec.log[k].name] # EmptySql

\* C6 witness: a run applied 1_a.sql, then failed on the empty 2_b.sql with
\* 3_c.sql still to come.
C6_Witness ==
    /\ last.op = "run"
    /\ last.err = Err("empty", N2b)
    /\ NamesIn(last.log, "insert") = <<N1a>>
    /\ N3c \in last.dir
    /\ HeadRevision(ledger) = 1

HasFailingStatement(sql) == \E k \in 1..Len(sql) : sql[k] = "fail"

SqlFailureHalts(rec, k) ==
    LET name == rec.log[k].name
    IN  /\ rec.err = Err("sql", name)
        /\ k + 1 = Len(rec.log)
        /\ rec.log[k + 1] = [rec.log[k] EXCEPT !.ev = "rollback"]
        /\ \A i \in 1..Len(rec.data1) : rec.data1[i].script # name
        /\ Range(SubSeq(rec.data1, Len(rec.data0) + 1, Len(rec.data1))) =
              UNION { { [script |-> n, stmt |-> i] : i \in 1..Len(files[n]) } :
                        n \in Range(NamesIn(rec.log, "commit")) }
        /\ name \notin Range(NamesIn(rec.log, "insert"))
        /\ RowsAddedAreLogged(rec)
        /\ NamesIn(rec.log, "insert") = NamesIn(rec.log, "commit")

\* C7: when the SQL of a pending script fails, the run fails with that
\* error: the transaction is rolled back and none of the script's
\* statements persist, no ledger row is written for it, no later script is
\* evaluated, and the effects and rows of the scripts applied before it in
\* the same run remain.
C7_SqlFailureHalts ==
    /\ \A rec \in Completed :
          \A k \in 1..Len(rec.log) :
              (rec.log[k].ev = "begin" /\ HasFailingStatement(files[rec.log[k].name]))
              => SqlFailureHalts(rec, k)
    /\ \A rec \in InProgress :
          \A k \in 1..Len(rec.log) :
              rec.log[k].ev = "begin" => ~HasFailingStatement(files[rec.log[k].name])
    /\ \A i \in (Len(last.data0) + 1)..Len(last.data1) :
          files[last.data1[i].script][last.data1[i].stmt] = "ok"

\* C7 witness: a run applied 1_a.sql, then failed in the SQL of 2_b.sql
\* with 3_c.sql still to come; the row of 1_a.sql is in the ledger.
C7_Witness ==
    /\ last.op = "run"
    /\ last.err = Err("sql", N2b)
    /\ NamesIn(last.log, "insert") = <<N1a>>
    /\ N3c \in last.dir
    /\ ledger = <<LedgerRow(N1a, 1)>>

\* The .sql files of a directory whose leading token is no integer.
Misnamed(dir) == { n \in dir : IsSqlFile(n) /\ ~IsIntLiteral(SplitFirst(n)) }

\* C8: when the directory holds a .sql file whose leading token is not an
\* integer, run_migrations fails in discovery with the error naming such a
\* file, no list is returned, and nothing is applied: no script is
\* evaluated, the ledger and the data are unchanged.
C8_NamingViolation ==
    \A rec \in Completed :
        (rec.op = "run" /\ Misnamed(rec.dir) # {})
        => /\ rec.err.kind = "naming"
           /\ rec.err.file \in Misnamed(rec.dir)
           /\ rec.found = <<>>
           /\ rec.log = <<>>
           /\ rec.ledger1 = rec.ledger0
           /\ rec.data1 = rec.data0

\* C8 witness: a run on a connected database at head 0 refused x_a.sql and
\* left the well-formed, non-empty 1_a.sql unapplied.
C8_Witness ==
    /\ last.op = "run"
    /\ last.err = Err("naming", <<"x", "_", "a">> \o SqlExt)
    /\ N1a \in last.dir
    /\ files[N1a] = GoodSql
    /\ last.conn0 = "open" /\ last.table0
    /\ ledger = <<>>

\* C9: whenever the ledger table exists, _get_latest_revision returns the
\* maximum revision in the ledger, or 0 when the ledger has no rows.
C9_LatestRevisionIsMax ==
    /\ tableExists => LatestRevision(ledger) = HeadRevision(ledger)
    /\ \A rec \in Completed :
          (rec.op = "head" /\ rec.table0 /\ rec.conn0 = "open")
          => /\ rec.err = NoErr
             /\ rec.ret = <<HeadRevision(rec.ledger0)>>
    /\ \A rec \in Completed \cup InProgress :
          \A k \in 1..Len(rec.log) :
              rec.log[k].ev = "eval" =>
                  rec.log[k].head =
                      HeadRevision(rec.ledger0 \o
                          LedgerOf(SubSeq(NamesIn(rec.log, "insert"), 1,
                                          Len(NamesIn(SubSeq(rec.log, 1, k), "insert")))))

\* C9 witness: _get_latest_revision returned 3 from a ledger of three rows.
C9_Witness ==
    /\ last.op = "head"
    /\ last.ret = <<3>>
    /\ Len(last.ledger0) = 3

\* C10 as stated: against a database with no ledger table,
\* _get_latest_revision returns 0 (and a later setup creates the table).
C10_HeadIsZeroWithoutTable ==
    (last.op = "head" /\ last.conn0 = "open" /\ ~last.table0)
    => (last.err = NoErr /\ last.ret = <<0>>)

\* C10 amended: against a database with no ledger table,
\* _get_latest_revision raises the undefined-table error and returns
\* nothing; setup creates the table without error, leaving the ledger
\* empty, and _get_latest_revision called right after that setup returns 0.
C10_SetupThenHeadIsZero ==
    /\ (last.op = "head" /\ last.conn0 = "open" /\ ~last.table0)
       => (last.err = Err("undefined_table", <<>>) /\ last.ret = <<>>)
    /\ (last.op = "setup" /\ last.conn0 # "closed" /\ ~last.table0)
       => (last.err = NoErr /\ last.table1 /\ last.ledger1 = <<>>)
    /\ (prev.op = "setup" /\ prev.conn0 # "closed" /\ ~prev.table0 /\ last.op = "head")
       => (last.err = NoErr /\ last.ret = <<0>>)

\* C10 witness: setup created the missing table and the next call,
\* _get_latest_revision, returned 0.
C10_Witness ==
    /\ prev.op = "setup" /\ ~prev.table0 /\ prev.table1
    /\ last.op = "head" /\ last.ret = <<0>>

-----------------------------------------------------------------------------
(* C11: setup creates the ledger table exactly when it is absent and is
   idempotent. *)

\* What one completed setup did, read from its record.
SetupEffect(rec) ==
    /\ rec.ledger1 = rec.ledger0
    /\ rec.data1 = rec.data0
    /\ (rec.table0 => rec.table1)
    /\ (rec.conn0 # "closed" => (rec.err = NoErr /\ rec.table1))
    /\ (rec.conn0 = "closed"
        => (rec.err = Err("interface_error", <<>>) /\ rec.table1 = rec.table0))

\* C11: a setup whose probe meets the undefined-table error creates the
\* table and raises nothing; a setup on an existing table raises nothing
\* and leaves the table, every ledger row and the head revision as they
\* were; a second setup right after a setup changes nothing at all; a probe
\* that fails otherwise (closed connection) raises that error and creates
\* no table.
C11_SetupIdempotent ==
    /\ \A rec \in Completed : rec.op = "setup" => SetupEffect(rec)
    /\ (last.op = "setup" /\ pc[1] = "idle")
       => /\ tableExists = last.table1
          /\ ledger = last.ledger0
          /\ data = last.data0
          /\ HeadRevision(ledger) = HeadRevision(last.ledger0)
          /\ (~last.table0 /\ last.table1) => ledger = <<>>
    /\ (prev.op = "setup" /\ prev.err = NoErr /\ last.op = "setup")
       => /\ last.err = NoErr
          /\ last.conn0 = "open"
          /\ last.table0 = prev.table1
          /\ last.table1 = prev.table1
          /\ last.ledger1 = prev.ledger1
          /\ last.data1 = prev.data1

\* C11 witness: setup ran twice in a row on a ledger that holds two rows,
\* the first of the two on a new connection.
C11_Witness ==
    /\ prev.op = "setup" /\ prev.conn0 = "none" /\ prev.table0
    /\ last.op = "setup" /\ last.err = NoErr
    /\ Len(ledger) = 2 /\ ledger = prev.ledger0

-----------------------------------------------------------------------------
(* wait_for_database: the loop that waits for the database to accept a
   connection.  The loop variable i is kept in pos; the events of the log
   carry it in their field head. *)

WAIT_ITERATIONS == 15

\* No process is inside a call and nothing was called yet; the processes
\* of `active` exist.
Quiet(active) ==
    /\ pc = [p \in Procs |-> IF p \in active THEN "idle" ELSE "off"]
    /\ scripts = [p \in Procs |-> <<>>]
    /\ pos = [p \in Procs |-> 0]
    /\ revision = [p \in Procs |-> 0]
    /\ call = [p \in Procs |-> NoCall]
    /\ prev = NoCall
    /\ last = NoCall
    /\ cli = [p \in Procs |-> NoCli]

\* A bug: one iteration too many.
RangeHasNext_inclusive(i, n) == i + 1 <= n

\* for i in range(n): is there an iteration after iteration i?
RangeHasNext(i, n) == i + 1 < n

\* A bug: the return after the successful connect is missing.
AfterConnect_noReturn(ok) == "sleep"

\* try: connect; return / except Exception: print, sleep
AfterConnect(ok) == IF ok THEN "return" ELSE "sleep"

\* Migrator.wait_for_database is called: the loop is entered.
WaitForDatabase(p) ==
    /\ pc[p] = "idle"
    /\ IF WAIT_ITERATIONS = 0
       THEN Complete(p, [NewCall(p, "wait") EXCEPT !.err = Err("unreachable", <<>>)])
       ELSE /\ pc' = [pc EXCEPT ![p] = "connect"]
            /\ pos' = [pos EXCEPT ![p] = 0]
            /\ call' = [call EXCEPT ![p] = NewCall(p, "wait")]
            /\ UNCHANGED <<scripts, revision, prev, last>>
    /\ UNCHANGED <<dirExists, files, tableExists, ledger, data, conn>>

\* One connection attempt: the database accepts it or not.
WaitConnect(p) ==
    /\ pc[p] = "connect"
    /\ \E ok \in BOOLEAN :
          LET rec == [call[p] EXCEPT !.log =
                         Append(@, Event(IF ok THEN "connected" ELSE "refused",
                                         <<>>, pos[p]))]
          IN  IF AfterConnect(ok) = "return"
              THEN /\ conn' = [conn EXCEPT ![p] = "open"]
                   /\ Complete(p, rec)
              ELSE /\ UNCHANGED conn
                   /\ pc' = [pc EXCEPT ![p] = "sleep"]
                   /\ call' = [call EXCEPT ![p] = rec]
                   /\ UNCHANGED <<scripts, pos, revision, prev, last>>
    /\ UNCHANGED <<dirExists, files, tableExists, ledger, data>>

\* The sleep after a refused attempt; after the last one the loop ends and
\* the error is raised.
WaitSleep(p) ==
    /\ pc[p] = "sleep"
    /\ LET rec == [call[p] EXCEPT !.log = Append(@, Event("sleep", <<>>, pos[p]))]
       IN  IF RangeHasNext(pos[p], WAIT_ITERATIONS)
           THEN /\ pc' = [pc EXCEPT ![p] = "connect"]
                /\ pos' = [pos EXCEPT ![p] = pos[p] + 1]
                /\ call' = [call EXCEPT ![p] = rec]
                /\ UNCHANGED <<scripts, revision, prev, last>>
           ELSE Complete(p, [rec EXCEPT !.err = Err("unreachable", <<>>)])
    /\ UNCHANGED <<dirExists, files, tableExists, ledger, data, conn>>

\* A Migrator made with or without a connection, on a database with or
\* without the ledger table.
InitWait ==
    /\ files = [n \in {} |-> <<>>]
    /\ dirExists \in BOOLEAN
    /\ tableExists \in BOOLEAN
    /\ ledger = <<>>
    /\ data = <<>>
    /\ \E c \in {"none", "open"} : conn = [p \in Procs |-> IF p = 1 THEN c ELSE "none"]
    /\ Quiet({1})

NextWait ==
    \E p \in Procs :
        \/ WaitForDatabase(p) /\ UNCHANGED cli
        \/ WaitConnect(p) /\ UNCHANGED cli
        \/ WaitSleep(p) /\ UNCHANGED cli
        \/ Close(p) /\ UNCHANGED cli

\* An attempt returns or times out (timeout=2) and the sleep ends: the
\* loop is never stuck inside a step.
SpecWait ==
    /\ InitWait
    /\ [][NextWait]_vars
    /\ \A p \in Procs : WF_vars((WaitConnect(p) \/ WaitSleep(p)) /\ UNCHANGED cli)

\* How many events `ev` a log holds.
Count(log, ev) == Len(SelectSeq(log, LAMBDA e : e.ev = ev))

\* The connection attempts of a wait_for_database call.
Attempts(rec) == Count(rec.log, "connected") + Count(rec.log, "refused")

WaitCalls == { rec \in Completed \union InProgress : rec.op = "wait" }

\* The attempts are made one after the other, each refused one followed by
\* one sleep: the log is refused, sleep, refused, sleep, ...
AttemptsInTurn(rec) ==
    \A k \in 1..Len(rec.log) :
        /\ rec.log[k].head = (k - 1) \div 2
        /\ (k % 2 = 0) <=> (rec.log[k].ev = "sleep")
        /\ (k % 2 = 0) => rec.log[k - 1].ev = "refused"

C12_Safety ==
    \A rec \in WaitCalls :
        /\ AttemptsInTurn(rec)
        /\ Attempts(rec) <= WAIT_ITERATIONS
        /\ (rec \in Completed /\ Count(rec.log, "connected") = 0)
           => rec.err = Err("unreachable", <<>>)
        /\ rec.err # NoErr
           => /\ rec.err = Err("unreachable", <<>>)
              /\ rec \in Completed
              /\ Count(rec.log, "connected") = 0
              /\ Count(rec.log, "refused") = WAIT_ITERATIONS
              /\ Attempts(rec) = WAIT_ITERATIONS

\* C12: a wait_for_database whose attempts are all refused makes exactly
\* WAIT_ITERATIONS attempts and then raises the database-unreachable error
\* (it never returns normally, never raises earlier, never tries again),
\* and every wait_for_database that was started comes to an end.
C12_ExactlyMaxAttempts ==
    /\ []C12_Safety
    /\ \A p \in Procs : (pc[p] \in {"connect", "sleep"}) ~> (pc[p] = "idle")

\* C12 witness: a wait_for_database ended with the database-unreachable
\* error after WAIT_ITERATIONS refused attempts.
C12_Witness ==
    /\ last.op = "wait"
    /\ last.err = Err("unreachable", <<>>)
    /\ Count(last.log, "refused") = WAIT_ITERATIONS
    /\ pc[1] = "idle"

\* C13: when an attempt is accepted, it is the last event of the call: the
\* call has returned without error, holding the open connection, after
\* exactly k attempts (k - 1 refused ones, each followed by one sleep, and
\* the accepted one), with no sleep and no attempt after it.
C13_ReturnsOnFirstSuccess ==
    \A rec \in WaitCalls :
        \A k \in 1..Len(rec.log) :
            rec.log[k].ev = "connected"
            => /\ k = Len(rec.log)
               /\ rec \in Completed
               /\ rec.err = NoErr
               /\ Attempts(rec) = rec.log[k].head + 1
               /\ Attempts(rec) <= WAIT_ITERATIONS
               /\ Count(rec.log, "refused") = rec.log[k].head
               /\ Count(rec.log, "sleep") = rec.log[k].head
               /\ Count(rec.log, "connected") = 1
               /\ (rec = last /\ pc[rec.proc] = "idle") => conn[rec.proc] = "open"

\* C13 witness: the third attempt was the first accepted one, on a
\* Migrator that had no connection.
C13_Witness ==
    /\ last.op = "wait" /\ last.err = NoErr /\ last.conn0 = "none"
    /\ Len(last.log) = 5
    /\ last.log[5] = Event("connected", <<>>, 2)
    /\ conn[1] = "open"

-----------------------------------------------------------------------------
(* new_migration_script and list_all_migrations. *)

\* At most this many files are in the migrations directory when a new
\* script is asked for.
MaxScripts == 2

\* str(n) of a natural number.
RECURSIVE NatToStr(_)
NatToStr(n) ==
    IF n < 10 THEN <<Digits[n + 1]>>
    ELSE NatToStr(n \div 10) \o <<Digits[(n % 10) + 1]>>

\* f'{n}' of an integer.
IntToStr(n) == IF n < 0 THEN <<"-">> \o NatToStr(0 - n) ELSE NatToStr(n)

\* str(uuid.uuid4())[:8]: eight hexadecimal digits, chosen by chance.
UuidNames ==
    { <<"e", "1", "a", "b", "2", "0", "c", "4">>,
      <<"0", "d", "9", "9", "b", "a", "5", "e">> }

\* The script_name arguments: none (or the empty string), or a name.
ScriptNameArgs == { <<>>, <<"b">> }

\* A bug: the next index is the number of scripts plus one.
NextIndex_count(list) == Len(list) + 1

\* index of _get_migration_scripts()[-1], or 0 on IndexError; plus one.
NextIndex(list) == (IF list = <<>> THEN 0 ELSE list[Len(list)].index) + 1

\* f'{index + 1}_{filename}.sql' (without the directory)
NewScriptName(index, filename) == IntToStr(index) \o <<"_">> \o filename \o SqlExt

\* open(filename, 'w'); write(''): the file exists and is empty afterwards.
WriteEmpty(dir, name) ==
    [n \in DOMAIN dir \cup {name} |-> IF n = name THEN EmptySql ELSE dir[n]]

\* Migrator.new_migration_script
NewMigrationScript(p, script_name) ==
    /\ pc[p] = "idle"
    /\ Cardinality(DOMAIN files) <= MaxScripts
    /\ \E got \in { GetMigrationScripts(l) : l \in Listings(DOMAIN files) } :
       \E filename \in (IF script_name = <<>> THEN UuidNames ELSE {script_name}) :
          LET rec == [NewCall(p, "new") EXCEPT !.found = got.list]
              name == NewScriptName(NextIndex(got.list), filename)
          IN  IF got.err # NoErr
              THEN /\ Complete(p, [rec EXCEPT !.err = got.err])
                   /\ UNCHANGED files
              ELSE /\ files' = WriteEmpty(files, name)
                   /\ Complete(p, [rec EXCEPT !.ret = <<name>>])
    /\ dirExists' = TRUE
    /\ UNCHANGED <<tableExists, ledger, data, conn>>

\* A bug: a script whose index equals the head is shown as not applied.
Flag_lt(index, head) == IF index < head THEN "x" ELSE " "

\* 'x' if index <= revision else ' '
Flag(index, head) == IF index <= head THEN "x" ELSE " "

\* Migrator.list_all_migrations: the head is read, the scripts are listed,
\* one line is logged per script.
ListAllMigrations(p) ==
    /\ pc[p] = "idle"
    /\ LET e == DbError(conn[p], tableExists)
           head == LatestRevision(ledger)
       IN  IF e # "none"
           THEN /\ Complete(p, [NewCall(p, "list") EXCEPT !.err = Err(e, <<>>)])
                /\ UNCHANGED dirExists
           ELSE /\ \E got \in { GetMigrationScripts(l) : l \in Listings(DOMAIN files) } :
                      LET rec == [NewCall(p, "list") EXCEPT !.found = got.list]
                          lines == [k \in 1..Len(got.list) |->
                                      [flag |-> Flag(got.list[k].index, head),
                                       name |-> got.list[k].name]]
                      IN  IF got.err # NoErr
                          THEN Complete(p, [rec EXCEPT !.err = got.err])
                          ELSE Complete(p, [rec EXCEPT !.ret = lines])
                /\ dirExists' = TRUE
    /\ UNCHANGED <<files, tableExists, ledger, data, conn>>

NNeg2a == <<"-", "2", "_", "a">> \o SqlExt

\* The directories new and list start from: empty, the documentation's
\* three scripts, one script, a negative index, two scripts of index 2,
\* a file that is no script, a script that does not start with a number.
ToolDirectories ==
    { [n \in D |-> GoodSql] :
        D \in { {}, {N1a}, {N3c}, {N1a, N2b, N3c}, {NNeg2a}, {N02a, N2b},
                {N1a, <<"4", "_", "e">> \o PyExt},
                {N1a, <<"x", "_", "a">> \o SqlExt} } }

InitTools ==
    /\ files \in ToolDirectories
    /\ dirExists \in (IF DOMAIN files = {} THEN BOOLEAN ELSE {TRUE})
    /\ tableExists \in BOOLEAN
    /\ \E earlier \in (IF tableExists THEN EarlierRuns ELSE {<<>>}) :
          /\ ledger = LedgerOf(earlier)
          /\ data = DataOf(earlier)
    /\ \E c \in {"none", "open"} : conn = [p \in Procs |-> IF p = 1 THEN c ELSE "none"]
    /\ Quiet({1})

NextTools ==
    \E p \in Procs :
        \/ Setup(p) /\ UNCHANGED cli
        \/ ListAllMigrations(p) /\ UNCHANGED cli
        \/ \E script_name \in ScriptNameArgs :
              NewMigrationScript(p, script_name) /\ UNCHANGED cli

SpecTools == InitTools /\ [][NextTools]_vars

\* The scripts of a directory and their indices, as the data model defines
\* them (for directories whose scripts all start with a number).
ScriptsOf(dir) == { n \in dir : IsSqlFile(n) }

IndexOf(name) == ToInt(SplitFirst(name))

ValidlyNamed(dir) == \A n \in ScriptsOf(dir) : IsIntLiteral(SplitFirst(n))

\* The greatest index of the scripts of a directory, 0 when it has none.
MaxIndexOf(dir) ==
    IF ScriptsOf(dir) = {} THEN 0
    ELSE CHOOSE m \in { IndexOf(n) : n \in ScriptsOf(dir) } :
            \A n \in ScriptsOf(dir) : IndexOf(n) <= m

\* What a completed new_migration_script did, read from its record.
NewEffect(rec) ==
    IF ValidlyNamed(rec.dir)
    THEN /\ rec.err = NoErr
         /\ Len(rec.ret) = 1
         /\ rec.ret[1] \notin rec.dir
         /\ IsSqlFile(rec.ret[1])
         /\ IsIntLiteral(SplitFirst(rec.ret[1]))
         /\ IndexOf(rec.ret[1]) = MaxIndexOf(rec.dir) + 1
         /\ \A n \in ScriptsOf(rec.dir) : IndexOf(n) < IndexOf(rec.ret[1])
    ELSE rec.err.kind = "naming" /\ rec.ret = <<>>

C14_State ==
    /\ \A rec \in Completed : rec.op = "new" => NewEffect(rec)
    /\ (last.op = "new" /\ last.err = NoErr)
       => /\ DOMAIN files = last.dir \cup {last.ret[1]}
          /\ files[last.ret[1]] = EmptySql
    /\ (last.op = "new" /\ last.err # NoErr) => DOMAIN files = last.dir
    /\ (prev.op = "new" /\ last.op = "new" /\ prev.err = NoErr)
       => /\ last.dir = prev.dir \cup {prev.ret[1]}
          /\ IndexOf(last.ret[1]) = IndexOf(prev.ret[1]) + 1
    /\ ValidlyNamed(DOMAIN files)
       => \A n, m \in ScriptsOf(DOMAIN files) :
             (n # m /\ IndexOf(n) = IndexOf(m)) => {n, m} = {N02a, N2b}

\* A step that changes the directory adds one empty script whose index is
\* above every index there was, and changes no other file.
C14_Step ==
    files' # files
    => \E name \in DOMAIN files' \ DOMAIN files :
          /\ files' = [n \in DOMAIN files \cup {name} |->
                         IF n = name THEN EmptySql ELSE files[n]]
          /\ last'.op = "new" /\ last'.ret = <<name>>
          /\ IndexOf(name) = MaxIndexOf(DOMAIN files) + 1

\* C14: new_migration_script on a validly named directory creates exactly
\* one file, new and empty, whose index is the greatest index of the scripts
\* found plus one (1 when there is none) and so above the index of every
\* script that was there, and changes no other file; two calls in a row
\* create indices n and n + 1; no two scripts share an index unless they
\* did before the first call (02_a.sql and 2_b.sql).
C14_NewScriptIndex == []C14_State /\ [][C14_Step]_vars

\* C14 witness: after 3_c.sql alone, two calls created 4_b.sql and then a
\* generated name of index 5.
C14_Witness ==
    /\ prev.op = "new" /\ prev.dir = {N3c}
    /\ prev.ret = << <<"4", "_", "b">> \o SqlExt >>
    /\ last.op = "new" /\ last.err = NoErr
    /\ last.ret[1] = <<"5", "_">> \o <<"e", "1", "a", "b", "2", "0", "c", "4">> \o SqlExt
    /\ files[last.ret[1]] = EmptySql

\* What a completed list_all_migrations reported, read from its record.
ListReport(rec) ==
    IF rec.conn0 = "open" /\ rec.table0 /\ ValidlyNamed(rec.dir)
    THEN /\ rec.err = NoErr
         /\ { rec.ret[k].name : k \in 1..Len(rec.ret) } = ScriptsOf(rec.dir)
         /\ Len(rec.ret) = Cardinality(ScriptsOf(rec.dir))
         /\ \A j, k \in 1..Len(rec.ret) :
               j < k => IndexOf(rec.ret[j].name) <= IndexOf(rec.ret[k].name)
         /\ \A k \in 1..Len(rec.ret) :
               (rec.ret[k].flag = "x")
                   <=> (IndexOf(rec.ret[k].name) <= HeadRevision(rec.ledger0))
         /\ \A k \in 1..Len(rec.ret) : rec.ret[k].flag \in {"x", " "}
    ELSE rec.err # NoErr /\ rec.ret = <<>>

C15_State ==
    /\ \A rec \in Completed :
          rec.op = "list"
          => /\ ListReport(rec)
             /\ rec.log = <<>>
             /\ rec.ledger1 = rec.ledger0
             /\ rec.data1 = rec.data0
    /\ last.op = "list"
       => /\ DOMAIN files = last.dir
          /\ ledger = last.ledger0
          /\ HeadRevision(ledger) = HeadRevision(last.ledger0)
          /\ data = last.data0
          /\ tableExists = last.table0

\* The step in which a list_all_migrations call is made changes no file,
\* no ledger row, no data and not the ledger table.
C15_Step ==
    (last'.op = "list" /\ <<prev', last'>> # <<prev, last>>)
    => UNCHANGED <<files, tableExists, ledger, data>>

\* C15: list_all_migrations reports every script found, once, in ascending
\* index order, marked applied exactly when its index <= the head revision;
\* it executes no statement, adds no ledger row, and leaves the head
\* revision, the ledger table and the files as they were.
C15_ListIsPureRead == []C15_State /\ [][C15_Step]_vars

\* C15 witness: with head revision 2, the list of 1_a.sql, 2_b.sql, 3_c.sql
\* marks the first two and not the third.
C15_Witness ==
    /\ last.op = "list"
    /\ HeadRevision(ledger) = 2
    /\ last.ret = << [flag |-> "x", name |-> N1a],
                     [flag |-> "x", name |-> N2b],
                     [flag |-> " ", name |-> N3c] >>

-----------------------------------------------------------------------------
(* handle: the command line.  One handle() is one process with a new
   Migrator; cli[p].trace lists the methods it has called. *)

\* args.action: the subcommand, "none" for the default None.
Actions == {"list", "new", "migrate", "wait", "none"}

\* A bug: wait goes through setup as the other subcommands do.
CallsSetup_wait(action) == action \in {"list", "new", "migrate", "wait"}

\* The branches of handle that begin with mg.setup().
CallsSetup(action) == action \in {"list", "new", "migrate"}

\* The directories the command line is tried on: no script; 1_a.sql and
\* 2_b.sql; 1_a.sql and an empty or a failing 2_b.sql.
CliDirectories ==
    { [n \in {} |-> GoodSql] }
    \cup { [n \in {N1a, N2b} |-> IF n = N1a THEN GoodSql ELSE sql] : sql \in Contents }

InitCli ==
    /\ files \in CliDirectories
    /\ dirExists \in (IF DOMAIN files = {} THEN BOOLEAN ELSE {TRUE})
    /\ tableExists \in BOOLEAN
    /\ ledger = <<>>
    /\ data = <<>>
    /\ conn = [p \in Procs |-> "none"]
    /\ Quiet({1})

\* Where handle() is after a method call: inside it (the call awaits), at
\* the next line (it returned), or out (it raised).
AfterCall(p, next) ==
    IF pc'[p] # "idle" THEN "running"
    ELSE IF last'.err # NoErr THEN "raised"
    ELSE next

Called(p, method, next) ==
    cli' = [cli EXCEPT ![p].trace = Append(@, method),
                       ![p].at = AfterCall(p, next)]

\* handle() starts: the arguments are parsed and a Migrator is made.
Handle(p, action, name) ==
    /\ pc[p] = "idle"
    /\ cli[p].at \in {"off", "returned", "raised"}
    /\ conn' = [conn EXCEPT ![p] = "none"]
    /\ cli' = [cli EXCEPT ![p] =
                 [action |-> action,
                  name |-> IF action = "new" THEN name ELSE <<>>,
                  at |-> IF action = "none" THEN "returned"
                         ELSE IF CallsSetup(action) THEN "setup" ELSE "op",
                  trace |-> IF action = "none" THEN <<"print_help">> ELSE <<>>]]
    /\ UNCHANGED <<dirExists, files, tableExists, ledger, data, pc, scripts,
                   pos, revision, call, prev, last>>

\* await mg.setup()
HandleSetup(p) ==
    /\ cli[p].at = "setup"
    /\ Setup(p)
    /\ Called(p, "setup", "op")

\* await mg.list_all_migrations()
HandleList(p) ==
    /\ cli[p].at = "op" /\ cli[p].action = "list"
    /\ ListAllMigrations(p)
    /\ Called(p, "list_all_migrations", "close")

\* await mg.new_migration_script(args.name)
HandleNew(p) ==
    /\ cli[p].at = "op" /\ cli[p].action = "new"
    /\ NewMigrationScript(p, cli[p].name)
    /\ Called(p, "new_migration_script", "close")

\* await mg.run_migrations()
HandleMigrate(p) ==
    /\ cli[p].at = "op" /\ cli[p].action = "migrate"
    /\ RunMigrations(p)
    /\ Called(p, "run_migrations", "close")

\* await mg.wait_for_database()
HandleWait(p) ==
    /\ cli[p].at = "op" /\ cli[p].action = "wait"
    /\ WaitForDatabase(p)
    /\ Called(p, "wait_for_database", "close")

\* The method handle() awaits goes on.
HandleAwait(p, step) ==
    /\ cli[p].at = "running"
    /\ step
    /\ cli' = [cli EXCEPT ![p].at = AfterCall(p, "close")]

\* await mg.close(); return
HandleClose(p) ==
    /\ cli[p].at = "close"
    /\ Close(p)
    /\ Called(p, "close", "returned")

NextCli ==
    \E p \in Procs :
        \/ \E action \in Actions, name \in ScriptNameArgs : Handle(p, action, name)
        \/ HandleSetup(p)
        \/ HandleList(p)
        \/ HandleNew(p)
        \/ HandleMigrate(p)
        \/ HandleWait(p)
        \/ HandleAwait(p, RunHead(p))
        \/ HandleAwait(p, RunExec(p))
        \/ HandleAwait(p, RunInsert(p))
        \/ HandleAwait(p, WaitConnect(p))
        \/ HandleAwait(p, WaitSleep(p))
        \/ HandleClose(p)

SpecCli == InitCli /\ [][NextCli]_vars

\* The method a subcommand stands for, as the history names it.
OpOf(action) ==
    CASE action = "list" -> "list"
      [] action = "new" -> "new"
      [] action = "migrate" -> "run"
      [] action = "wait" -> "wait"
      [] OTHER -> "none"

\* The calls the claim expects of a subcommand, in order.
Expected(action) ==
    CASE action = "list" -> <<"setup", "list_all_migrations", "close">>
      [] action = "new" -> <<"setup", "new_migration_script", "close">>
      [] action = "migrate" -> <<"setup", "run_migrations", "close">>
      [] action = "wait" -> <<"wait_for_database", "close">>
      [] OTHER -> <<"print_help">>

IsPrefix(a, b) == Len(a) <= Len(b) /\ a = SubSeq(b, 1, Len(a))

\* C16: the methods handle() has called are at every moment a prefix of
\* setup, the subcommand's operation, close (list, new, migrate), of
\* wait_for_database, close (wait), of print_help alone (no subcommand);
\* when handle() returns they are exactly that sequence, each method called
\* once, the operation having run after setup on the open connection (wait:
\* with no setup, on no connection), new with the name given; when a method
\* raises, handle() ends there and calls nothing more.
C16_HandleDispatch ==
    \A p \in Procs :
        LET c == cli[p]
            want == Expected(c.action)
        IN  /\ IsPrefix(c.trace, want)
            /\ c.at = "returned" => c.trace = want
            /\ (c.at = "returned" /\ c.action # "none")
               => /\ last.op = "close" /\ last.proc = p
                  /\ prev.op = OpOf(c.action) /\ prev.proc = p /\ prev.err = NoErr
                  /\ prev.conn0 = (IF c.action = "wait" THEN "none" ELSE "open")
            /\ (c.at = "returned" /\ c.action = "new" /\ c.name # <<>>)
               => EndsWith(prev.ret[1], <<"_">> \o c.name \o SqlExt)
            /\ c.at = "raised"
               => /\ c.trace # <<>> /\ c.trace # want
                  /\ last.err # NoErr /\ last.proc = p
            /\ c.at \in {"setup", "op"} => Len(c.trace) < Len(want) - 1
            /\ c.at = "close" => Len(c.trace) = Len(want) - 1

\* C16 witness: `migrate` returned after setup, run_migrations and close,
\* having applied 1_a.sql and 2_b.sql.
C16_Witness ==
    /\ cli[1].action = "migrate" /\ cli[1].at = "returned"
    /\ cli[1].trace = <<"setup", "run_migrations", "close">>
    /\ Len(ledger) = 2
    /\ conn[1] = "closed"

-----------------------------------------------------------------------------
(* A run that is interrupted: the process ends inside run_migrations and
   another process starts afterwards. *)

\* A script that was executed and not recorded because of an interruption
\* is interrupted again at most this many times.
MaxReruns == 1

\* How many times the statements of a script were committed.
Executions(d, name) ==
    Cardinality({ k \in 1..Len(d) : d[k].script = name /\ d[k].stmt = 1 })

\* A bug (of the database): what a script committed is lost when the
\* process ends before the ledger row is inserted.
Durable_lost(committed, atStart) == atStart

\* The transaction of _execute_sql_script has committed when the block is
\* left: the end of the process does not undo it.
Durable(committed, atStart) == committed

\* The process ends inside _run_migration: before the head is read, before
\* the script is executed, or after its transaction committed and before
\* its ledger row is inserted.  The next process has a Migrator of its own.
Crash(p) ==
    /\ pc[p] \in {"head", "exec", "insert"}
    /\ LET s == scripts[p][pos[p]]
           kept == Durable(data, call[p].data0)
       IN  /\ pc[p] = "insert" => Executions(data, s.name) <= MaxReruns
           /\ data' = kept
           /\ Complete(p, [call[p] EXCEPT !.err = Err("crash", s.name),
                                          !.data1 = kept])
    /\ \E c \in {"none", "open"} : conn' = [conn EXCEPT ![p] = c]
    /\ UNCHANGED <<dirExists, files, tableExists, ledger>>

\* The directories of the interrupted runs: none, one or both of 1_a.sql
\* and 2_b.sql, with any content.
CrashDirectories == { f \in Directories : DOMAIN f \subseteq {N1a, N2b} }

InitCrash ==
    /\ files \in CrashDirectories
    /\ dirExists = TRUE
    /\ tableExists = TRUE
    /\ \E earlier \in {<<>>, <<N1a>>} :
          /\ ledger = LedgerOf(earlier)
          /\ data = DataOf(earlier)
    /\ conn = [p \in Procs |-> IF p = 1 THEN "open" ELSE "none"]
    /\ Quiet({1})

NextCrash ==
    \E p \in Procs :
        \/ Setup(p) /\ UNCHANGED cli
        \/ RunMigrations(p) /\ UNCHANGED cli
        \/ RunHead(p) /\ UNCHANGED cli
        \/ RunExec(p) /\ UNCHANGED cli
        \/ RunInsert(p) /\ UNCHANGED cli
        \/ Crash(p) /\ UNCHANGED cli

SpecCrash == InitCrash /\ [][NextCrash]_vars

\* The run of the record ended between the commit of a script and the
\* insert of its ledger row.
CrashedAfterCommit(rec) ==
    /\ rec.op = "run"
    /\ rec.err.kind = "crash"
    /\ rec.log # <<>>
    /\ rec.log[Len(rec.log)] = Event("commit", rec.err.file, rec.log[Len(rec.log)].head)

RowsNamed(rows, name) == { k \in 1..Len(rows) : rows[k].name = name }

\* C17: when a run ends between the commit of a script and the insert of
\* its ledger row, what the script wrote stays committed, no row of the
\* script is in the ledger and the head revision is the one the run read
\* for the script; the next run_migrations (on an open connection, not
\* interrupted itself) executes that script again and records it, so that
\* the script has been executed at least twice and is recorded once.
C17_CrashReexecutes ==
    /\ \A rec \in Completed :
          CrashedAfterCommit(rec)
          => /\ Executions(rec.data1, rec.err.file)
                  = Executions(rec.data0, rec.err.file) + 1
             /\ Executions(rec.data1, rec.err.file) >= 1
             /\ RowsNamed(rec.ledger1, rec.err.file) = {}
             /\ HeadRevision(rec.ledger1) = rec.log[Len(rec.log)].head
             /\ HeadRevision(rec.ledger1) < IndexOf(rec.err.file)
    /\ (CrashedAfterCommit(last) /\ pc[1] = "idle")
       => (data = last.data1 /\ ledger = last.ledger1)
    /\ (CrashedAfterCommit(prev) /\ last.op = "run" /\ last.conn0 = "open"
          /\ last.err.kind # "crash")
       => /\ prev.err.file \in Range(NamesIn(last.log, "begin"))
          /\ prev.err.file \in Range(NamesIn(last.log, "commit"))
          /\ prev.err.file \in Range(NamesIn(last.log, "insert"))
          /\ Executions(last.data1, prev.err.file) >= 2
          /\ Cardinality(RowsNamed(last.ledger1, prev.err.file)) = 1
    /\ \A n \in DOMAIN files : Cardinality(RowsNamed(ledger, n)) <= 1

\* C17 witness: the run was interrupted after 2_b.sql committed; the next
\* run executed 2_b.sql again and recorded it: executed twice, recorded once.
C17_Witness ==
    /\ CrashedAfterCommit(prev) /\ prev.err.file = N2b
    /\ last.op = "run" /\ last.err = NoErr
    /\ Executions(data, N2b) = 2
    /\ Cardinality(RowsNamed(ledger, N2b)) = 1

-----------------------------------------------------------------------------
(* An external writer: another client of the database inserts ledger rows
   while runs are in progress. *)

\* The external writer inserts at most this many rows.
MaxExternal == 1

ExternalName == <<"e", "x">>

ExternalRevisions == {1, 2, 3}

ExternalRows(rows) == { k \in 1..Len(rows) : rows[k].name = ExternalName }

\* INSERT INTO __migrations by another client.  The calls in progress note
\* the moment in their logs.
ExtInsert(r) ==
    /\ tableExists
    /\ Cardinality(ExternalRows(ledger)) < MaxExternal
    /\ ledger' = Append(ledger, LedgerRow(ExternalName, r))
    /\ call' = [p \in Procs |->
                  IF pc[p] \in {"idle", "off"} THEN call[p]
                  ELSE [call[p] EXCEPT !.log = Append(@, Event("ext", ExternalName, r))]]
    /\ UNCHANGED <<dirExists, files, tableExists, data, conn, pc, scripts, pos,
                   revision, prev, last>>

\* 1_a.sql, 2_b.sql and 3_c.sql, any of them, all with statements that succeed.
ExtDirectories ==
    { f \in Directories : DOMAIN f \subseteq {N1a, N2b, N3c}
                          /\ \A n \in DOMAIN f : f[n] = GoodSql }

InitExt ==
    /\ files \in ExtDirectories
    /\ dirExists = TRUE
    /\ tableExists = TRUE
    /\ \E earlier \in {<<>>, <<N1a>>} :
          /\ ledger = LedgerOf(earlier)
          /\ data = DataOf(earlier)
    /\ conn = [p \in Procs |-> IF p = 1 THEN "open" ELSE "none"]
    /\ Quiet({1})

NextExt ==
    \/ \E p \in Procs :
          \/ RunMigrations(p) /\ UNCHANGED cli
          \/ RunHead(p) /\ UNCHANGED cli
          \/ RunExec(p) /\ UNCHANGED cli
          \/ RunInsert(p) /\ UNCHANGED cli
    \/ \E r \in ExternalRevisions : ExtInsert(r) /\ UNCHANGED cli

SpecExt == InitExt /\ [][NextExt]_vars

\* The greatest number of a set of integers that is not empty.
MaxOf(S) == CHOOSE m \in S : \A x \in S : x <= m

\* The head revision of the ledger at event k of a run, put together from
\* the ledger the run started on and the rows inserted since, by the run
\* and by the external writer.
HeadAt(rec, k) ==
    MaxOf({HeadRevision(rec.ledger0)}
          \cup { rec.log[j].head : j \in { i \in 1..(k - 1) : rec.log[i].ev = "ext" } }
          \cup { IndexOf(rec.log[j].name) :
                   j \in { i \in 1..(k - 1) : rec.log[i].ev = "insert" } })

\* Nothing was done for the script evaluated at event k after that event.
NotTouchedAfter(rec, k) ==
    /\ \A j \in (k + 1)..Len(rec.log) : rec.log[j].name # rec.log[k].name
    /\ RowsNamed(RowsAdded(rec), rec.log[k].name) = {}

\* C18: the head a run compares a script with is the head of the ledger at
\* that moment, rows of an external writer included; so every script that
\* is evaluated after an external row of revision r was inserted and has
\* index <= r is skipped: not read, not executed, not recorded.
C18_HeadReadFresh ==
    \A rec \in Completed \union InProgress :
        rec.op = "run"
        => \A k \in 1..Len(rec.log) :
              rec.log[k].ev = "eval"
              => /\ rec.log[k].head = HeadAt(rec, k)
                 /\ \A j \in 1..(k - 1) :
                       (rec.log[j].ev = "ext"
                          /\ IndexOf(rec.log[k].name) <= rec.log[j].head)
                       => NotTouchedAfter(rec, k)

\* C18 witness: after the run recorded 1_a.sql an external row of revision
\* 3 was inserted, and the run skipped 2_b.sql and 3_c.sql.
C18_Witness ==
    /\ last.op = "run" /\ last.err = NoErr
    /\ NamesIn(last.log, "eval") = <<N1a, N2b, N3c>>
    /\ NamesIn(last.log, "insert") = <<N1a>>
    /\ ledger = <<LedgerRow(N1a, 1), LedgerRow(ExternalName, 3)>>
    /\ Executions(data, N2b) = 0

-----------------------------------------------------------------------------
(* Script names at the width of the name column, VARCHAR(50). *)

\* '<index>_aaa...a.sql' of the given length.
NameOfLength(index, len) ==
    LET start == IntToStr(index) \o <<"_">>
    IN  start \o [k \in 1..(len - Len(start) - Len(SqlExt)) |-> "a"] \o SqlExt

\* A name of index 1 one character longer than the name column.
NTooLong == NameOfLength(1, NameColumnLen + 1)

\* A name of index 3 that just fits the name column.
NFits == NameOfLength(3, NameColumnLen)

\* Any of the too long name, 2_b.sql and the name that just fits, all with
\* statements that succeed.
LongDirectories == { [n \in D |-> GoodSql] : D \in SUBSET {NTooLong, N2b, NFits} }

InitLong ==
    /\ files \in LongDirectories
    /\ dirExists = TRUE
    /\ tableExists \in BOOLEAN
    /\ ledger = <<>>
    /\ data = <<>>
    /\ conn = [p \in Procs |-> IF p = 1 THEN "open" ELSE "none"]
    /\ Quiet({1})

\* A script that is executed and cannot be recorded is executed by every
\* run: runs are started while it was executed at most MaxReruns times.
NextLong ==
    \E p \in Procs :
        \/ Setup(p) /\ UNCHANGED cli
        \/ /\ Executions(data, NTooLong) <= MaxReruns
           /\ RunMigrations(p)
           /\ UNCHANGED cli
        \/ RunHead(p) /\ UNCHANGED cli
        \/ RunExec(p) /\ UNCHANGED cli
        \/ RunInsert(p) /\ UNCHANGED cli

SpecLong == InitLong /\ [][NextLong]_vars

\* The script committed at event k of a run was recorded right away: the
\* next event is the insert of its row, and the row is in the ledger with
\* the script's name and index.
RecordedAfterCommit(rec, k) ==
    /\ k < Len(rec.log)
    /\ rec.log[k + 1].ev = "insert"
    /\ rec.log[k + 1].name = rec.log[k].name
    /\ \E j \in 1..Len(rec.ledger1) :
          rec.ledger1[j] = LedgerRow(rec.log[k].name, IndexOf(rec.log[k].name))

\* C19 as stated: in every run_migrations that has ended without the
\* process being interrupted, each script whose transaction committed was
\* recorded, by a ledger row with its file name and its index, before the
\* next script was evaluated, whatever the length of the name; in a run in
\* progress only the script committed last may still be unrecorded.
C19_RowPerAppliedScript ==
    /\ \A rec \in Completed :
          (rec.op = "run" /\ rec.err.kind # "crash")
          => \A k \in 1..Len(rec.log) :
                rec.log[k].ev = "commit" => RecordedAfterCommit(rec, k)
    /\ \A rec \in InProgress :
          rec.op = "run"
          => \A k \in 1..(Len(rec.log) - 1) :
                rec.log[k].ev = "commit" => RecordedAfterCommit(rec, k)

-----------------------------------------------------------------------------
(* Two processes run run_migrations on the same database and the same
   directory.  Nothing in _run_migration locks the ledger. *)

\* 1_a.sql alone, 1_a.sql and 2_b.sql, or 02_a.sql and 2_b.sql, with
\* statements that succeed.
RaceDirectories ==
    { [n \in D |-> GoodSql] : D \in { {N1a}, {N1a, N2b}, {N02a, N2b} } }

InitRace ==
    /\ files \in RaceDirectories
    /\ dirExists = TRUE
    /\ tableExists = TRUE
    /\ \E earlier \in {<<>>, <<N1a>>} :
          /\ ledger = LedgerOf(earlier)
          /\ data = DataOf(earlier)
    /\ conn = [p \in Procs |-> "open"]
    /\ Quiet(Procs)

NextRace ==
    \E p \in Procs :
        \/ RunMigrations(p) /\ UNCHANGED cli
        \/ RunHead(p) /\ UNCHANGED cli
        \/ RunExec(p) /\ UNCHANGED cli
        \/ RunInsert(p) /\ UNCHANGED cli

SpecRace == InitRace /\ [][NextRace]_vars

RowsOfRevision(rows, r) == { k \in 1..Len(rows) : rows[k].revision = r }

\* The events `ev` of a log that are about the script `name`.
EventsOf(log, ev, name) ==
    { k \in 1..Len(log) : log[k].ev = ev /\ log[k].name = name }

\* Each process on its own keeps to the check: what it records it has
\* evaluated before, once, against a head below the index.
ChecksItsOwnHead(rec) ==
    \A k \in 1..Len(rec.log) :
        rec.log[k].ev = "insert"
        => /\ EventsOf(rec.log, "insert", rec.log[k].name) = {k}
           /\ \E j \in 1..(k - 1) :
                 /\ rec.log[j] = Event("eval", rec.log[k].name, rec.log[k].head)
                 /\ rec.log[j].head < IndexOf(rec.log[k].name)

\* C20: with two processes in run_migrations, each process records a script
\* only after it read a head below the script's index, and nothing else
\* keeps the processes apart: the ledger can come to hold the same revision
\* twice (the witness), one row per process, and never more rows of one
\* revision than there are processes.
C20_RaceOnLedger ==
    /\ \A rec \in Completed \union InProgress :
          rec.op = "run" => ChecksItsOwnHead(rec)
    /\ \A r \in Revisions(ledger) :
          Cardinality(RowsOfRevision(ledger, r)) <= Cardinality(Procs)
    /\ \A n \in DOMAIN files : Executions(data, n) <= Cardinality(Procs)

\* C20 witness: both processes evaluated 1_a.sql against head 0, both
\* executed it and both recorded it: the ledger holds revision 1 twice and
\* is not strictly increasing.
C20_Witness ==
    /\ prev.op = "run" /\ last.op = "run" /\ prev.proc # last.proc
    /\ \A rec \in Completed :
          /\ EventsOf(rec.log, "eval", N1a) # {}
          /\ \A k \in EventsOf(rec.log, "eval", N1a) : rec.log[k].head = 0
          /\ EventsOf(rec.log, "commit", N1a) # {}
          /\ EventsOf(rec.log, "insert", N1a) # {}
    /\ ledger = <<LedgerRow(N1a, 1), LedgerRow(N1a, 1)>>
    /\ ~(ledger[1].revision < ledger[2].revision)
    /\ Executions(data, N1a) = 2

-----------------------------------------------------------------------------
(* Every operation of the Migrator, in any order, on one process. *)

\* A negative index beside 1_a.sql and 2_b.sql; 1_a.sql and a failing
\* 2_b.sql.
AllDirectories ==
    { [n \in {NNeg2a, N1a, N2b} |-> GoodSql],
      [n \in {N1a, N2b} |-> IF n = N2b THEN FailingSql ELSE GoodSql] }

InitAll ==
    /\ files \in AllDirectories
    /\ dirExists = TRUE
    /\ tableExists \in BOOLEAN
    /\ \E earlier \in (IF tableExists THEN {<<>>, <<N1a>>} ELSE {<<>>}) :
          /\ ledger = LedgerOf(earlier)
          /\ data = DataOf(earlier)
    /\ conn = [p \in Procs |-> "none"]
    /\ Quiet({1})

NextAll ==
    \E p \in Procs :
        \/ Setup(p) /\ UNCHANGED cli
        \/ Close(p) /\ UNCHANGED cli
        \/ RunMigrations(p) /\ UNCHANGED cli
        \/ RunHead(p) /\ UNCHANGED cli
        \/ RunExec(p) /\ UNCHANGED cli
        \/ RunInsert(p) /\ UNCHANGED cli
        \/ ListAllMigrations(p) /\ UNCHANGED cli
        \/ NewMigrationScript(p, <<"b">>) /\ UNCHANGED cli
        \/ WaitForDatabase(p) /\ UNCHANGED cli
        \/ WaitConnect(p) /\ UNCHANGED cli
        \/ WaitSleep(p) /\ UNCHANGED cli

SpecAll == InitAll /\ [][NextAll]_vars

\* One step of any operation: the rows there were are still there, in
\* place and unchanged, the table is not dropped, and the head revision,
\* as the data model defines it and as _get_latest_revision computes it,
\* has not gone down.
C21_Step ==
    /\ IsPrefix(ledger, ledger')
    /\ tableExists => tableExists'
    /\ HeadRevision(ledger') >= HeadRevision(ledger)
    /\ LatestRevision(ledger') >= LatestRevision(ledger)

\* Every call, failed ones included, left the rows it found in place.
C21_Calls ==
    /\ \A rec \in Completed \union InProgress :
          /\ IsPrefix(rec.ledger0, rec.ledger1)
          /\ IsPrefix(rec.ledger1, ledger)
          /\ HeadRevision(rec.ledger0) <= HeadRevision(rec.ledger1)
          /\ HeadRevision(rec.ledger1) <= HeadRevision(ledger)
    /\ IsPrefix(prev.ledger1, last.ledger0)

\* C21: the ledger is append-only and the head revision never goes down:
\* no step of setup, run_migrations, _run_migration, list_all_migrations,
\* new_migration_script, wait_for_database or close removes or changes a
\* ledger row, and after any sequence of them, failed runs included, the
\* head is at least every earlier head.
C21_LedgerAppendOnly == []C21_Calls /\ [][C21_Step]_vars

\* C21 witness: a run recorded 1_a.sql, raising the head from 0 to 1, and
\* then failed on 2_b.sql: the row and the head stayed.
C21_Witness ==
    /\ last.op = "run" /\ last.err = Err("sql", N2b)
    /\ last.ledger0 = <<>>
    /\ ledger = <<LedgerRow(N1a, 1)>>
    /\ HeadRevision(ledger) = 1

-----------------------------------------------------------------------------
(* C22: scripts that share an index. *)

\* The scripts of a directory with index i.
Group(dir, i) == { n \in ScriptsOf(dir) : IndexOf(n) = i }

\* The script of its index whose file name sorts first (Python's str <).
FirstOfGroup(dir, n) ==
    \A m \in Group(dir, IndexOf(n)) : m # n => StrLess(n, m)

\* The events of a log that touch a script: all but its evaluation.
Touched(log) ==
    { log[k].name : k \in { j \in 1..Len(log) :
                              log[j].ev \in {"read", "begin", "commit", "insert"} } }

\* C22: of the scripts that share an index, no run ever reads, executes or
\* records any but the one whose file name sorts first, and no run records
\* an index twice; a run_migrations that returns without error has, for
\* every index i above the head it started from, executed once and recorded
\* exactly that first script and only evaluated the others; the run after
\* it executes none of them.
C22_OneOfEachIndex ==
    /\ \A rec \in Completed \union InProgress :
          (rec.op = "run" /\ ValidlyNamed(rec.dir))
          => /\ \A n \in Touched(rec.log) : FirstOfGroup(rec.dir, n)
             /\ \A r \in Revisions(RowsAdded(rec)) :
                   Cardinality(RowsOfRevision(RowsAdded(rec), r)) = 1
    /\ \A rec \in Completed :
          RunOk(rec)
          => \A n \in ScriptsOf(rec.dir) :
                IndexOf(n) > HeadRevision(rec.ledger0)
                => /\ Cardinality(EventsOf(rec.log, "eval", n)) = 1
                   /\ Cardinality(RowsOfRevision(RowsAdded(rec), IndexOf(n))) = 1
                   /\ IF FirstOfGroup(rec.dir, n)
                      THEN /\ Cardinality(EventsOf(rec.log, "commit", n)) = 1
                           /\ Cardinality(RowsNamed(RowsAdded(rec), n)) = 1
                      ELSE /\ n \notin Touched(rec.log)
                           /\ RowsNamed(rec.ledger1, n) = RowsNamed(rec.ledger0, n)
    /\ (RunOk(prev) /\ last.op = "run" /\ last.dir = prev.dir)
       => Touched(last.log) = {}

\* C22 witness: from the empty ledger a run executed and recorded 02_a.sql
\* and passed over 2_b.sql; the run after it executed neither.
C22_Witness ==
    /\ RunOk(prev) /\ prev.ledger0 = <<>> /\ prev.dir = {N02a, N2b}
    /\ NamesIn(prev.log, "insert") = <<N02a>>
    /\ RunOk(last)
    /\ NamesIn(last.log, "eval") = <<N02a, N2b>>
    /\ ledger = <<LedgerRow(N02a, 2)>>
    /\ Executions(data, N2b) = 0

-----------------------------------------------------------------------------
(* C23: new_migration_script, then run_migrations. *)

\* The empty directory; 1_a.sql; 1_a.sql and a failing 2_b.sql; 1_a.sql and
\* 2_b.sql; a negative index.
NewRunDirectories ==
    { [n \in {} |-> GoodSql],
      [n \in {N1a} |-> GoodSql],
      [n \in {N1a, N2b} |-> IF n = N2b THEN FailingSql ELSE GoodSql],
      [n \in {N1a, N2b} |-> GoodSql],
      [n \in {NNeg2a} |-> GoodSql] }

\* A migrator after setup(): the connection is open and the table exists;
\* the ledger may be ahead of the directory.
InitNewRun ==
    /\ files \in NewRunDirectories
    /\ dirExists = TRUE
    /\ tableExists = TRUE
    /\ \E earlier \in EarlierRuns :
          /\ ledger = LedgerOf(earlier)
          /\ data = DataOf(earlier)
    /\ conn = [p \in Procs |-> IF p = 1 THEN "open" ELSE "none"]
    /\ Quiet({1})

NextNewRun ==
    \E p \in Procs :
        \/ \E script_name \in ScriptNameArgs :
              NewMigrationScript(p, script_name) /\ UNCHANGED cli
        \/ RunMigrations(p) /\ UNCHANGED cli
        \/ RunHead(p) /\ UNCHANGED cli
        \/ RunExec(p) /\ UNCHANGED cli
        \/ RunInsert(p) /\ UNCHANGED cli

SpecNewRun == InitNewRun /\ [][NextNewRun]_vars

\* new_migration_script returned, and the next call was a run_migrations
\* that has returned or raised.
NewThenRun == prev.op = "new" /\ prev.err = NoErr /\ last.op = "run"

\* The script that new_migration_script created.
NewScript == prev.ret[1]

\* The scripts other than `name` that the run finds above the head it
\* starts from, one for each index (the first by name).
EarlierPending(rec, name) ==
    { m \in ScriptsOf(rec.dir) \ {name} :
        /\ IndexOf(m) > HeadRevision(rec.ledger0)
        /\ FirstOfGroup(rec.dir, m) }

\* The new script's index comes from the files alone and the file is empty.
C23_Created ==
    /\ IndexOf(NewScript) = MaxIndexOf(prev.dir) + 1
    /\ NewScript \in last.dir
    /\ files[NewScript] = EmptySql

\* The new script is passed over and the run returns.
C23_Skipped ==
    /\ last.err = NoErr
    /\ NewScript \notin Touched(last.log)
    /\ RowsAdded(last) = <<>>

\* The new script is neither executed nor recorded and the head stays below it.
C23_NotApplied ==
    /\ last.err # NoErr
    /\ EventsOf(last.log, "begin", NewScript) = {}
    /\ EventsOf(last.log, "insert", NewScript) = {}
    /\ RowsNamed(RowsAdded(last), NewScript) = {}
    /\ HeadRevision(last.ledger1) < IndexOf(NewScript)

\* Every earlier pending script has been executed and recorded by the run.
C23_EarlierRecorded ==
    \A m \in EarlierPending(last, NewScript) :
        /\ Cardinality(EventsOf(last.log, "commit", m)) = 1
        /\ Cardinality(RowsNamed(RowsAdded(last), m)) = 1

\* The claim as it is worded: the run either skips the new script or, with
\* every earlier pending script recorded, fails on it as empty.
C23_AsStated ==
    NewThenRun
    => /\ C23_Created
       /\ IF IndexOf(NewScript) <= HeadRevision(last.ledger0)
          THEN C23_Skipped
          ELSE /\ last.err = Err("empty", NewScript)
               /\ C23_EarlierRecorded
               /\ C23_NotApplied

\* C23: new_migration_script numbers its script one above the largest script
\* index, whatever the ledger holds, and leaves it empty.  The next
\* run_migrations passes it over and returns when its index <= head;
\* otherwise the run raises without executing or recording the new script
\* and the head stays below its index: with the empty-script error on the
\* new script, every earlier pending script recorded, when all of those
\* execute, and else with the error of the first earlier pending script
\* that is empty or fails.
C23_NewThenRun ==
    NewThenRun
    => /\ C23_Created
       /\ IF IndexOf(NewScript) <= HeadRevision(last.ledger0)
          THEN C23_Skipped
          ELSE /\ C23_NotApplied
               /\ IF \A m \in EarlierPending(last, NewScript) : files[m] = GoodSql
                  THEN /\ last.err = Err("empty", NewScript)
                       /\ C23_EarlierRecorded
                  ELSE /\ last.err.kind \in {"empty", "sql"}
                       /\ last.err.file \in EarlierPending(last, NewScript)
                       /\ files[last.err.file] # GoodSql
                       /\ \A m \in EarlierPending(last, NewScript) :
                             IndexOf(m) < IndexOf(last.err.file)
                             => files[m] = GoodSql

\* C23 witness: 3_b.sql was created beside 1_a.sql and 2_b.sql over an empty
\* ledger; the run recorded both and raised on the empty 3_b.sql.
C23_Witness ==
    /\ NewThenRun
    /\ prev.dir = {N1a, N2b}
    /\ last.ledger0 = <<>>
    /\ last.err = Err("empty", NewScript)
    /\ IndexOf(NewScript) = 3
    /\ ledger = <<LedgerRow(N1a, 1), LedgerRow(N2b, 2)>>

====
